---- MODULE Spec2Model ----
(***************************************************************************)
(* Alerta Vecinal backend: the text risk classifier (ai_utils.py), the     *)
(* image risk classifier (ai_vision.py) and the report routes (app.py).    *)
(*                                                                         *)
(* Numbers: confidences are integers in hundredths (0.8 is 80).            *)
(* Characters are one-character strings; a precomposed accented vowel is   *)
(* written "a_acute" / "A_acute" and the combining acute accent (U+0301,   *)
(* Unicode category Mn) is written "acute".                                *)
(***************************************************************************)
EXTENDS Integers, Sequences, FiniteSets, TLC

None == "None"

\* Python's None where a string (a sequence of characters) is expected
NoneStr == <<"None">>

(***************************************************************************)
(* Bounds of the model.                                                    *)
(***************************************************************************)
\* longest description, in vocabulary words
MaxWords == 3

\* rows of table "reports"
MaxReports == 3

\* rows of table "reports" in the runs of the image pipeline
MaxImageReports == 2

\* status changes of one report
MaxStatusUpdates == 2

\* rows of table "track_points"
MaxTrackPoints == 2

\* panic requests between their two commits at the same time
MaxInflight == 1

(***************************************************************************)
(* Characters: str.lower, unicodedata.normalize("NFD"), unicodedata.category*)
(***************************************************************************)
LowercaseLetters ==
    <<"a","b","c","d","e","f","g","h","i","j","k","l","m","n","o","p","q","r","s","t","u","v","w","x","y","z">>

UppercaseLetters ==
    <<"A","B","C","D","E","F","G","H","I","J","K","L","M","N","O","P","Q","R","S","T","U","V","W","X","Y","Z">>

LowerVowels == <<"a", "e", "i", "o", "u">>

UpperVowels == <<"A", "E", "I", "O", "U">>

LowerAcute == <<"a_acute", "e_acute", "i_acute", "o_acute", "u_acute">>

UpperAcute == <<"A_acute", "E_acute", "I_acute", "O_acute", "U_acute">>

CombiningAcute == "acute"

InSeq(s, c) == \E i \in 1..Len(s) : s[i] = c

IndexOf(s, c) == CHOOSE i \in 1..Len(s) : s[i] = c

\* str.lower() on one character
lower_ch(c) ==
    IF InSeq(UppercaseLetters, c) THEN LowercaseLetters[IndexOf(UppercaseLetters, c)]
    ELSE IF InSeq(UpperAcute, c) THEN LowerAcute[IndexOf(UpperAcute, c)]
    ELSE c

\* canonical decomposition (NFD) of one character
nfd_ch(c) ==
    IF InSeq(LowerAcute, c) THEN <<LowerVowels[IndexOf(LowerAcute, c)], CombiningAcute>>
    ELSE IF InSeq(UpperAcute, c) THEN <<UpperVowels[IndexOf(UpperAcute, c)], CombiningAcute>>
    ELSE <<c>>

\* unicodedata.category(ch)
category(c) ==
    IF c = CombiningAcute THEN "Mn"
    ELSE IF c = " " THEN "Zs"
    ELSE IF InSeq(UppercaseLetters, c) \/ InSeq(UpperAcute, c) THEN "Lu"
    ELSE "Ll"

str_lower(text) == [i \in 1..Len(text) |-> lower_ch(text[i])]

RECURSIVE nfd(_)
nfd(text) ==
    IF Len(text) = 0 THEN <<>> ELSE nfd_ch(Head(text)) \o nfd(Tail(text))

NotMn(ch) == category(ch) # "Mn"

(***************************************************************************)
(* ai_utils.py : _normalize                                                *)
(***************************************************************************)
\* the lower-casing step left out
normalize_no_lower(text) == SelectSeq(nfd(text), NotMn)

normalize(text) == SelectSeq(nfd(str_lower(text)), NotMn)

(***************************************************************************)
(* ai_utils.py : analyze_text                                              *)
(***************************************************************************)
WEAPON_KEYWORDS ==
    << <<"a","r","m","a">>,
       <<"p","i","s","t","o","l","a">>,
       <<"r","e","v","o","l","v","e","r">>,
       <<"r","e","v","o","l","v">>,
       <<"c","u","c","h","i","l","l">>,
       <<"t","i","r","o">>,
       <<"d","i","s","p","a","r">>,
       <<"f","u","s","i","l">>,
       <<"e","s","c","o","p","e","t">> >>

VEHICLE_KEYWORDS ==
    << <<"a","u","t","o">>,
       <<"m","o","t","o">>,
       <<"c","a","m","i","o","n","e","t">>,
       <<"v","e","h","i","c","u","l">>,
       <<"c","o","c","h","e">>,
       <<"t","a","x","i">>,
       <<"r","e","m","i","s">>,
       <<"c","a","m","i","o","n">>,
       <<"f","u","r","g","o","n">>,
       <<"p","i","c","k"," ","u","p">>,
       <<"p","i","c","k","u","p">> >>

KIDNAP_KEYWORDS ==
    << <<"s","e","c","u","e","s","t">>,
       <<"r","a","p","t">>,
       <<"p","r","i","v","a","c","i","o","n"," ","d","e"," ","l","a"," ","l","i","b","e","r","t","a","d">>,
       <<"l","e","v","a","n","t","a","r">>,
       <<"l","e","v","a","n","t","a","r","o","n">> >>

ROBBERY_KEYWORDS ==
    << <<"r","o","b","o">>,
       <<"r","o","b","a","r">>,
       <<"r","o","b","a","r","o","n">>,
       <<"r","o","b">>,
       <<"a","f","a","n","o">>,
       <<"c","h","o","r","e","o">>,
       <<"c","h","o","r","r","o">>,
       <<"a","s","a","l","t","o">>,
       <<"a","s","a","l","t">>,
       <<"h","u","r","t","o">>,
       <<"a","r","r","e","b","a","t","o">> >>

VIOLENCE_KEYWORDS ==
    << <<"v","i","o","l","e","n","c">>,
       <<"g","o","l","p","e">>,
       <<"g","o","l","p">>,
       <<"p","e","l","e","a">>,
       <<"a","g","r","e","s">>,
       <<"d","i","s","c","u","t">>,
       <<"a","t","a","q","u","e">> >>


\* Python's `w in text` on strings
IsSubstring(w, text) ==
    \E k \in 0..(Len(text) - Len(w)) : \A j \in 1..Len(w) : text[k + j] = w[j]

contains_any(text, words) ==
    \E n \in 1..Len(words) : IsSubstring(words[n], text)

\* the vehicle flag computed from the weapon keywords
text_flags_vehicle_slip(text) ==
    [ has_weapon        |-> contains_any(text, WEAPON_KEYWORDS),
      has_vehicle       |-> contains_any(text, KIDNAP_KEYWORDS),
      mentions_kidnap   |-> contains_any(text, KIDNAP_KEYWORDS),
      mentions_robbery  |-> contains_any(text, ROBBERY_KEYWORDS),
      mentions_violence |-> contains_any(text, VIOLENCE_KEYWORDS) ]

text_flags(text) ==
    [ has_weapon        |-> contains_any(text, WEAPON_KEYWORDS),
      has_vehicle       |-> contains_any(text, VEHICLE_KEYWORDS),
      mentions_kidnap   |-> contains_any(text, KIDNAP_KEYWORDS),
      mentions_robbery  |-> contains_any(text, ROBBERY_KEYWORDS),
      mentions_violence |-> contains_any(text, VIOLENCE_KEYWORDS) ]

\* kidnapping without a weapon rated as an intermediate case
text_risk_level_kidnap_medio(f) ==
    IF f.has_weapon /\ f.has_vehicle THEN "alto"
    ELSE IF f.has_weapon /\ (f.mentions_robbery \/ f.mentions_violence \/ f.mentions_kidnap)
         THEN "alto"
    ELSE IF f.mentions_kidnap \/ f.mentions_robbery \/ f.mentions_violence THEN "medio"
    ELSE "bajo"

text_risk_level(f) ==
    IF f.has_weapon /\ f.has_vehicle THEN "alto"
    ELSE IF f.has_weapon /\ (f.mentions_robbery \/ f.mentions_violence \/ f.mentions_kidnap)
         THEN "alto"
    ELSE IF f.mentions_kidnap THEN "alto"
    ELSE IF f.mentions_robbery \/ f.mentions_violence THEN "medio"
    ELSE "bajo"

text_summary(risk_level) ==
    IF risk_level = "alto" THEN "Texto indica posible situacion de ALTO riesgo (arma/secuestro/robo grave)."
    ELSE IF risk_level = "medio" THEN "Texto indica incidente relevante, riesgo MEDIO (robo/violencia sin arma clara)."
    ELSE "Texto sin indicadores claros de violencia grave (riesgo BAJO)."

\* the low level given the image stub's confidence
text_confidence_low_zero(risk_level) ==
    IF risk_level = "alto" THEN 80
    ELSE IF risk_level = "medio" THEN 65
    ELSE 0

text_confidence(risk_level) ==
    IF risk_level = "alto" THEN 80
    ELSE IF risk_level = "medio" THEN 65
    ELSE 45

analyze_text(d) ==
    LET raw_text == IF d = NoneStr \/ d = <<>> THEN <<>> ELSE d
        text     == normalize(raw_text)
        f        == text_flags(text)
        risk     == text_risk_level(f)
    IN  [ has_weapon     |-> f.has_weapon,
          has_vehicle    |-> f.has_vehicle,
          risk_level     |-> risk,
          ai_raw_summary |-> text_summary(risk),
          ai_confidence  |-> text_confidence(risk) ]

(***************************************************************************)
(* Descriptions given to analyze_text: up to MaxWords vocabulary words     *)
(* joined by spaces, written in one of the Styles.                         *)
(***************************************************************************)
Vocabulary ==
    << <<"a","r","m","a">>,
       <<"a","u","t","o">>,
       <<"r","a","p","t","o">>,
       <<"r","o","b","o">>,
       <<"g","o","l","p","e">>,
       <<"s","e","c","u","e","s","t","r","o"," ","a","r","m","a","d","o">>,
       <<"a","s","a","l","t","o"," ","c","o","n"," ","g","o","l","p","e","s">>,
       <<"v","e","c","i","n","o">> >>

Styles == {"plain", "UPPER_ACUTE", "Mixed_nfd"}

upper_ch(c) ==
    IF InSeq(LowercaseLetters, c) THEN UppercaseLetters[IndexOf(LowercaseLetters, c)] ELSE c

\* ROBO -> R O_acute B O_acute : upper case, precomposed accents on the vowels
StyleUpperAcute(text) ==
    [i \in 1..Len(text) |->
        IF InSeq(LowerVowels, text[i]) THEN UpperAcute[IndexOf(LowerVowels, text[i])]
        ELSE upper_ch(text[i])]

\* odd positions in upper case, every vowel followed by a combining accent
RECURSIVE StyleMixedNfd(_, _)
StyleMixedNfd(text, pos) ==
    IF Len(text) = 0 THEN <<>>
    ELSE LET c  == Head(text)
             cc == IF pos % 2 = 1 THEN upper_ch(c) ELSE c
         IN  (IF InSeq(LowerVowels, c) THEN <<cc, CombiningAcute>> ELSE <<cc>>)
             \o StyleMixedNfd(Tail(text), pos + 1)

Styled(text, style) ==
    IF style = "UPPER_ACUTE" THEN StyleUpperAcute(text)
    ELSE IF style = "Mixed_nfd" THEN StyleMixedNfd(text, 1)
    ELSE text

RECURSIVE JoinWords(_)
JoinWords(ws) ==
    IF Len(ws) = 0 THEN <<>>
    ELSE IF Len(ws) = 1 THEN Vocabulary[ws[1]]
    ELSE Vocabulary[ws[1]] \o <<" ">> \o JoinWords(Tail(ws))

WordSeqs == UNION { [1..n -> 1..Len(Vocabulary)] : n \in 0..MaxWords }

(***************************************************************************)
(* Python values shared by the routes                                      *)
(***************************************************************************)
\* a value handed to float(): a missing key (None), a non-numeric string
\* or a numeric string / number (value holds the number)
Missing == [kind |-> "missing", value |-> 0]

NotNumeric == [kind |-> "text", value |-> 0]

Num(n) == [kind |-> "number", value |-> n]

\* the string "nan": float() accepts it and returns the float nan
NanText == [kind |-> "nan", value |-> 0]

\* float(raw): TypeError on None, ValueError on a non-numeric string; nan
\* tells that the result is the float nan (value is then meaningless)
to_float(raw) ==
    IF raw.kind = "number" THEN [raised |-> FALSE, value |-> raw.value, nan |-> FALSE]
    ELSE IF raw.kind = "nan" THEN [raised |-> FALSE, value |-> 0, nan |-> TRUE]
    ELSE [raised |-> TRUE, value |-> 0, nan |-> FALSE]

str_upper(text) == [i \in 1..Len(text) |-> upper_ch(text[i])]

RECURSIVE str_lstrip(_)
str_lstrip(text) ==
    IF Len(text) > 0 /\ Head(text) = " " THEN str_lstrip(Tail(text)) ELSE text

RECURSIVE str_rstrip(_)
str_rstrip(text) ==
    IF Len(text) > 0 /\ text[Len(text)] = " "
    THEN str_rstrip(SubSeq(text, 1, Len(text) - 1)) ELSE text

\* the field as sent, without .strip()
get_unstripped(raw) ==
    IF raw = NoneStr THEN <<>> ELSE raw

\* (data.get(key) or "").strip()
get_stripped(raw) ==
    IF raw = NoneStr THEN <<>> ELSE str_rstrip(str_lstrip(raw))

(***************************************************************************)
(* ai_vision.py : compute_risk_and_summary                                 *)
(***************************************************************************)
WeaponLabels ==
    { <<"h","a","n","d","g","u","n">>, <<"g","u","n">>,
      <<"p","i","s","t","o","l">>, <<"r","e","v","o","l","v","e","r">> }

SummaryNoDetections == "Analisis IA (imagen): no se detectaron armas. Riesgo BAJO."

SummaryNoWeapons == "Analisis IA (imagen): se detectaron objetos, pero no armas claras. Riesgo BAJO."

SummaryAlto == "Analisis IA (imagen): se detecto al menos un arma de fuego con alta confianza. Riesgo ALTO."

SummaryMedio == "Analisis IA (imagen): se detecto posible arma de fuego con confianza media. Riesgo MEDIO."

SummaryUnclear == "Analisis IA (imagen): detecciones poco claras; se considera Riesgo BAJO."

SummaryFailure == "Analisis IA (imagen): no se pudo procesar la evidencia. Riesgo BAJO."

SummaryNoImage == "Analisis IA: sin imagen adjunta. Riesgo BAJO."

\* the for loop over the detections, from the state acc of the loop;
\* float() of a malformed confidence raises
RECURSIVE scan_detections(_, _)
scan_detections(dets, acc) ==
    IF Len(dets) = 0 THEN acc
    ELSE LET det   == Head(dets)
             label == str_lower(det.class)
             conf  == to_float(det.confidence)
         IN  IF conf.raised THEN [acc EXCEPT !.raised = TRUE]
             ELSE IF label \in WeaponLabels
                  THEN scan_detections(Tail(dets),
                          [acc EXCEPT !.weapon_detected = TRUE,
                                      !.max_conf = IF conf.value > acc.max_conf
                                                   THEN conf.value ELSE acc.max_conf])
                  ELSE scan_detections(Tail(dets), acc)

\* strict comparisons at the two thresholds
risk_bucket_strict(max_conf) ==
    IF max_conf > 80 THEN [risk_level |-> "alto", summary |-> SummaryAlto]
    ELSE IF max_conf > 50 THEN [risk_level |-> "medio", summary |-> SummaryMedio]
    ELSE [risk_level |-> "bajo", summary |-> SummaryUnclear]

risk_bucket(max_conf) ==
    IF max_conf >= 80 THEN [risk_level |-> "alto", summary |-> SummaryAlto]
    ELSE IF max_conf >= 50 THEN [risk_level |-> "medio", summary |-> SummaryMedio]
    ELSE [risk_level |-> "bajo", summary |-> SummaryUnclear]

compute_risk_and_summary(pred_json) ==
    LET detections == pred_json.predictions
        loop == scan_detections(detections,
                   [raised |-> FALSE, max_conf |-> 0, weapon_detected |-> FALSE])
    IN  IF Len(detections) = 0
        THEN [raised |-> FALSE, risk_level |-> "bajo", weapon_detected |-> FALSE,
              summary |-> SummaryNoDetections]
        ELSE IF loop.raised
        THEN [raised |-> TRUE, risk_level |-> "bajo", weapon_detected |-> FALSE,
              summary |-> SummaryFailure]
        ELSE IF ~loop.weapon_detected
        THEN [raised |-> FALSE, risk_level |-> "bajo", weapon_detected |-> FALSE,
              summary |-> SummaryNoWeapons]
        ELSE [raised |-> FALSE, risk_level |-> risk_bucket(loop.max_conf).risk_level,
              weapon_detected |-> loop.weapon_detected,
              summary |-> risk_bucket(loop.max_conf).summary]

(***************************************************************************)
(* ai_vision.py : extract_best_plate                                       *)
(***************************************************************************)
\* max(results, key=score): the first result with the greatest score
best_result(results) ==
    LET i == CHOOSE i \in 1..Len(results) :
                /\ \A j \in 1..Len(results) : results[j].score <= results[i].score
                /\ \A j \in 1..(i - 1) : results[j].score < results[i].score
    IN  results[i]

extract_best_plate(pr_json) ==
    IF Len(pr_json.results) = 0 THEN NoneStr
    ELSE LET plate == best_result(pr_json.results).plate
         IN  IF plate = NoneStr \/ Len(plate) = 0 THEN NoneStr ELSE str_upper(plate)

(***************************************************************************)
(* State                                                                   *)
(***************************************************************************)
VARIABLES
    words,            \* the vocabulary words of the two descriptions, unstyled
    description,      \* analyze_text's argument: None or a string
    variant,          \* a second argument: the same words in another style
    text_result,      \* analyze_text(description)
    variant_result,   \* analyze_text(variant)
    ROBOFLOW_API_KEY, \* ai_vision.py module global, read once from the environment
    PLATE_API_TOKEN,  \* ai_vision.py module global, read once from the environment
    reports,          \* table "reports": the rows in id order, reports[i].id = i
    uploads,          \* the files of UPLOAD_FOLDER: file name -> content
    status_updates,   \* per report id, how many times change_status assigned its status
    resp,             \* the last request and its response
    track_points,     \* table "track_points": the rows in id order
    panic_events,     \* table "panic_events": the rows in id order
    inflight,         \* the panic requests between their two commits
    clock             \* datetime.utcnow() of the last insert of a track point

textVars == <<words, description, variant, text_result, variant_result>>

envVars == <<ROBOFLOW_API_KEY, PLATE_API_TOKEN>>

appVars == <<reports, uploads, status_updates, resp>>

incidentVars == <<track_points, panic_events, inflight, clock>>

vars == <<words, description, variant, text_result, variant_result,
          ROBOFLOW_API_KEY, PLATE_API_TOKEN, reports, uploads, status_updates, resp,
          track_points, panic_events, inflight, clock>>

\* no call of analyze_text made yet
NoTextResult ==
    [ has_weapon |-> FALSE, has_vehicle |-> FALSE, risk_level |-> None,
      ai_raw_summary |-> None, ai_confidence |-> 0 ]

NoResponse == [op |-> "none", code |-> 0, args |-> <<>>, body |-> <<>>]

EmptyFiles == [n \in {} |-> None]

\* the database after db.create_all() and an empty upload folder
InitApp ==
    /\ reports = <<>>
    /\ uploads = EmptyFiles
    /\ status_updates = <<>>
    /\ resp = NoResponse
    /\ track_points = <<>>
    /\ panic_events = <<>>
    /\ inflight = <<>>
    /\ clock = 0

InitNoText ==
    /\ words = <<>>
    /\ description = NoneStr
    /\ variant = NoneStr
    /\ text_result = NoTextResult
    /\ variant_result = NoTextResult

InitText ==
    /\ words \in WordSeqs
    /\ \E s1 \in Styles \cup {None}, s2 \in Styles \cup {None} :
          /\ (s1 = None) => (Len(words) = 0)
          /\ (s2 = None) => (Len(words) = 0)
          /\ description = (IF s1 = None THEN NoneStr ELSE Styled(JoinWords(words), s1))
          /\ variant = (IF s2 = None THEN NoneStr ELSE Styled(JoinWords(words), s2))
    /\ text_result = NoTextResult
    /\ variant_result = NoTextResult
    /\ ROBOFLOW_API_KEY = None
    /\ PLATE_API_TOKEN = None
    /\ InitApp

call_analyze_text ==
    /\ text_result = NoTextResult
    /\ text_result' = analyze_text(description)
    /\ variant_result' = analyze_text(variant)
    /\ UNCHANGED <<words, description, variant>>
    /\ UNCHANGED envVars
    /\ UNCHANGED incidentVars
    /\ UNCHANGED appVars

NextText == call_analyze_text

SpecText == InitText /\ [][NextText]_vars

(***************************************************************************)
(* ai_vision.py : the two external calls and analyze_image                 *)
(***************************************************************************)
\* what the HTTP call does: world.kind is "ok" (world.json is the body),
\* "http_error" (raise_for_status raises) or "timeout" (requests raises)
call_roboflow_hosted(world) ==
    IF ROBOFLOW_API_KEY = None \/ ROBOFLOW_API_KEY = ""
    THEN [raised |-> TRUE, json |-> <<>>]
    ELSE IF world.kind # "ok" THEN [raised |-> TRUE, json |-> <<>>]
    ELSE [raised |-> FALSE, json |-> <<world.json>>]

call_plate_recognizer(world) ==
    IF PLATE_API_TOKEN = None \/ PLATE_API_TOKEN = ""
    THEN [raised |-> FALSE, json |-> <<>>]
    ELSE IF world.kind # "ok" THEN [raised |-> TRUE, json |-> <<>>]
    ELSE [raised |-> FALSE, json |-> <<world.json>>]

\* the except branch failing closed: an unprocessed image rated "alto"
weapon_step_fail_closed(rf_world) ==
    LET call == call_roboflow_hosted(rf_world)
        risk == compute_risk_and_summary(call.json[1])
    IN  IF call.raised \/ risk.raised
        THEN [rf_result |-> <<>>, risk_level |-> "alto", weapon_detected |-> TRUE,
              summary |-> SummaryFailure]
        ELSE [rf_result |-> call.json, risk_level |-> risk.risk_level,
              weapon_detected |-> risk.weapon_detected, summary |-> risk.summary]

\* step 1 of analyze_image: the try block around Roboflow
weapon_step(rf_world) ==
    LET call == call_roboflow_hosted(rf_world)
        risk == compute_risk_and_summary(call.json[1])
    IN  IF call.raised \/ risk.raised
        THEN [rf_result |-> <<>>, risk_level |-> "bajo", weapon_detected |-> FALSE,
              summary |-> SummaryFailure]
        ELSE [rf_result |-> call.json, risk_level |-> risk.risk_level,
              weapon_detected |-> risk.weapon_detected, summary |-> risk.summary]

\* step 2 of analyze_image: the try block around Plate Recognizer
\* (an empty JSON object is falsy and is skipped like None)
plate_step(pr_world) ==
    LET call == call_plate_recognizer(pr_world)
    IN  IF call.raised \/ Len(call.json) = 0
        THEN [plate_text |-> NoneStr, plate_raw |-> <<>>]
        ELSE [plate_text |-> extract_best_plate(call.json[1]), plate_raw |-> call.json]

\* summary, and the plate sentence appended to it when there is a plate
with_plate(summary, plate_text) ==
    [text |-> summary, plate |-> plate_text]

\* one try block around both calls: a failure of the weapon call skips the
\* plate call
analyze_image_single_try(image_bytes, rf_world, pr_world) ==
    LET w == weapon_step(rf_world)
        p == IF Len(w.rf_result) = 0
             THEN [plate_text |-> NoneStr, plate_raw |-> <<>>]
             ELSE plate_step(pr_world)
    IN  [ risk_level      |-> w.risk_level,
          weapon_detected |-> w.weapon_detected,
          ai_raw_summary  |-> with_plate(w.summary, p.plate_text),
          roboflow        |-> w.rf_result,
          plate_text      |-> p.plate_text,
          plate_raw       |-> p.plate_raw ]

analyze_image(image_bytes, rf_world, pr_world) ==
    LET w == weapon_step(rf_world)
        p == plate_step(pr_world)
    IN  [ risk_level      |-> w.risk_level,
          weapon_detected |-> w.weapon_detected,
          ai_raw_summary  |-> with_plate(w.summary, p.plate_text),
          roboflow        |-> w.rf_result,
          plate_text      |-> p.plate_text,
          plate_raw       |-> p.plate_raw ]

(***************************************************************************)
(* app.py : create_report                                                  *)
(***************************************************************************)
NoImage == [filename |-> <<>>, bytes |-> None]

\* filename.replace(" ", "_")
safe_name(filename) ==
    [i \in 1..Len(filename) |-> IF filename[i] = " " THEN "_" ELSE filename[i]]

write_file(files, name, bytes) ==
    [n \in (DOMAIN files) \cup {name} |-> IF n = name THEN bytes ELSE files[n]]

\* ai_info of create_report
report_ai_info(image, plate_text, import_ok, rf_world, pr_world) ==
    IF image.filename # <<>>
    THEN IF import_ok
         THEN analyze_image(image.bytes, rf_world, pr_world)
         ELSE [ risk_level |-> "bajo", weapon_detected |-> FALSE,
                ai_raw_summary |-> with_plate(SummaryFailure, NoneStr),
                roboflow |-> <<>>, plate_text |-> NoneStr, plate_raw |-> <<>> ]
    ELSE [ risk_level |-> "bajo", weapon_detected |-> FALSE,
           ai_raw_summary |-> with_plate(SummaryNoImage, NoneStr),
           roboflow |-> <<>>, plate_text |-> plate_text, plate_raw |-> <<>> ]

Emergencia == <<"e","m","e","r","g","e","n","c","i","a">>

create_report(data, image, import_ok, rf_world, pr_world) ==
    LET report_type == IF get_stripped(data.report_type) = <<>> THEN Emergencia
                       ELSE get_stripped(data.report_type)
        descr       == get_stripped(data.description)
        form_plate  == IF get_stripped(data.plate_text) = <<>> THEN NoneStr
                       ELSE get_stripped(data.plate_text)
        latitude    == to_float(data.latitude)
        longitude   == to_float(data.longitude)
        args        == [data |-> data, image |-> image, import_ok |-> import_ok,
                        rf_world |-> rf_world, pr_world |-> pr_world]
        has_image   == image.filename # <<>>
        ai_info     == report_ai_info(image, form_plate, import_ok, rf_world, pr_world)
        plate_text  == IF ai_info.plate_text # NoneStr THEN ai_info.plate_text ELSE form_plate
        report      ==
            [ id          |-> Len(reports) + 1,
              report_type |-> report_type,
              description |-> [user |-> descr, analysis |-> ai_info.ai_raw_summary],
              latitude    |-> latitude.value,
              longitude   |-> longitude.value,
              image_path  |-> IF has_image THEN safe_name(image.filename) ELSE NoneStr,
              plate_text  |-> plate_text,
              risk_level  |-> ai_info.risk_level,
              has_weapon  |-> ai_info.weapon_detected,
              has_vehicle |-> plate_text # NoneStr,
              status      |-> "pendiente",
              source      |-> "ciudadano" ]
    IN  IF latitude.raised \/ longitude.raised
        THEN /\ resp' = [op |-> "create_report", code |-> 400, args |-> args,
                         body |-> [ok |-> FALSE, error |-> "Latitud/Longitud invalidas"]]
             /\ UNCHANGED <<reports, uploads, status_updates>>
        ELSE IF latitude.nan \/ longitude.nan
        \* the file is written, then the INSERT fails: SQLite binds nan as NULL
        \* and the columns are NOT NULL
        THEN /\ uploads' = IF has_image
                           THEN write_file(uploads, safe_name(image.filename), image.bytes)
                           ELSE uploads
             /\ resp' = [op |-> "create_report", code |-> 500, args |-> args,
                         body |-> [ok |-> FALSE, error |-> "Internal Server Error"]]
             /\ UNCHANGED <<reports, status_updates>>
        ELSE /\ Len(reports) < MaxReports
             /\ uploads' = IF has_image
                           THEN write_file(uploads, safe_name(image.filename), image.bytes)
                           ELSE uploads
             /\ reports' = Append(reports, report)
             /\ status_updates' = Append(status_updates, 0)
             /\ resp' = [op |-> "create_report", code |-> 201, args |-> args,
                         body |-> [ok |-> TRUE, report |-> report,
                                   weapon_detected |-> report.has_weapon,
                                   ai_raw_summary |-> ai_info.ai_raw_summary,
                                   roboflow |-> ai_info.roboflow]]

(***************************************************************************)
(* Requests of the image pipeline: report creation with the outcomes of    *)
(* the two external services                                               *)
(***************************************************************************)
Det(class, conf) == [class |-> class, confidence |-> conf]

Person == <<"p","e","r","s","o","n">>

Predictions ==
    { <<>>,
      << Det(Person, Num(95)) >>,
      << Det(<<"G","u","n">>, Num(49)) >>,
      << Det(<<"g","u","n">>, Num(50)) >>,
      << Det(<<"P","I","S","T","O","L">>, Num(79)) >>,
      << Det(<<"r","e","v","o","l","v","e","r">>, Num(80)) >>,
      << Det(Person, Num(99)), Det(<<"h","a","n","d","g","u","n">>, Num(30)) >>,
      << Det(<<"g","u","n">>, Num(85)), Det(Person, Num(99)),
         Det(<<"h","a","n","d","g","u","n">>, Num(60)) >>,
      << Det(<<"g","u","n">>, NotNumeric) >> }

RoboflowWorlds ==
    { [kind |-> "ok", json |-> [predictions |-> p]] : p \in Predictions }
    \cup { [kind |-> k, json |-> [predictions |-> <<>>]] : k \in {"http_error", "timeout"} }

PlateResults ==
    { <<>>,
      << [plate |-> <<"a","b","1","2","3","c","d">>, score |-> 90] >>,
      << [plate |-> <<"x","y","z","9","8","7">>, score |-> 40],
         [plate |-> <<"a","b","1","2","3","c","d">>, score |-> 90] >> }

PlateWorlds ==
    { [kind |-> "ok", json |-> [results |-> r]] : r \in PlateResults }
    \cup { [kind |-> "http_error", json |-> [results |-> <<>>]] }

\* the services' behaviour where no image is sent and neither is called
AnyRoboflowWorld == [kind |-> "timeout", json |-> [predictions |-> <<>>]]

AnyPlateWorld == [kind |-> "http_error", json |-> [results |-> <<>>]]

HomeLat == -346037

HomeLng == -583816

Form(report_type, descr, plate_text, lat, lng) ==
    [report_type |-> report_type, description |-> descr, plate_text |-> plate_text,
     latitude |-> lat, longitude |-> lng]

Photo == [filename |-> <<"f","o","t","o"," ","1",".","j","p","g">>, bytes |-> "jpeg-1"]

InitVision ==
    /\ InitNoText
    /\ ROBOFLOW_API_KEY \in {None, "rf-key"}
    /\ PLATE_API_TOKEN \in {None, "pr-token"}
    /\ InitApp

create_report_with_image ==
    \E rf_world \in RoboflowWorlds, pr_world \in PlateWorlds, import_ok \in BOOLEAN :
        /\ Len(reports) < MaxImageReports
        /\ create_report(Form(NoneStr, <<>>, NoneStr, Num(HomeLat), Num(HomeLng)),
                         Photo, import_ok, rf_world, pr_world)
        /\ UNCHANGED textVars
        /\ UNCHANGED envVars
        /\ UNCHANGED incidentVars

create_report_without_image ==
    /\ Len(reports) < MaxImageReports
    /\ create_report(Form(NoneStr, <<>>, NoneStr, Num(HomeLat), Num(HomeLng)),
                     NoImage, TRUE, AnyRoboflowWorld, AnyPlateWorld)
    /\ UNCHANGED textVars
    /\ UNCHANGED envVars
    /\ UNCHANGED incidentVars

NextVision == create_report_with_image \/ create_report_without_image

SpecVision == InitVision /\ [][NextVision]_vars

(***************************************************************************)
(* Properties of the text classifier (checked under SpecText)              *)
(***************************************************************************)
TextDone == text_result # NoTextResult

\* the words as typed without capitals or accents
PlainText == JoinWords(words)

\* C2: every description that contains a weapon keyword and a vehicle
\* keyword is classified "alto", whatever else it contains and however it
\* is capitalised or accented.
C2_WeaponAndVehicleIsAlto ==
    ( /\ TextDone
      /\ contains_any(PlainText, WEAPON_KEYWORDS)
      /\ contains_any(PlainText, VEHICLE_KEYWORDS) )
    => ( /\ text_result.risk_level = "alto"
         /\ variant_result.risk_level = "alto" )

C2_Witness ==
    /\ TextDone
    /\ PlainText = Vocabulary[2] \o <<" ">> \o Vocabulary[1]
    /\ description = Styled(PlainText, "UPPER_ACUTE")
    /\ text_result.risk_level = "alto"

\* C3: two descriptions that differ only in letter case and accents get
\* the same result in every field.
C3_CaseAndAccentInsensitive ==
    TextDone => text_result = variant_result

C3_Witness ==
    /\ TextDone
    /\ description = <<"R", "O_acute", "B", "O_acute">>
    /\ variant = <<"r", "o", "b", "o">>
    /\ text_result.risk_level = "medio"
    /\ variant_result.risk_level = "medio"

\* C4: an absent (None) or empty description gives "bajo" with confidence
\* 0.45 and neither flag set.
AbsentResult(d, r) ==
    (d = NoneStr \/ Len(d) = 0)
    => ( /\ r.risk_level = "bajo"
         /\ r.ai_confidence = 45
         /\ r.has_weapon = FALSE
         /\ r.has_vehicle = FALSE )

C4_AbsentDescriptionIsLow ==
    TextDone => ( /\ AbsentResult(description, text_result)
                  /\ AbsentResult(variant, variant_result) )

C4_Witness ==
    /\ TextDone
    /\ description = NoneStr
    /\ variant = <<>>
    /\ text_result.risk_level = "bajo"

\* C5: the risk level follows the precedence table over the five keyword
\* categories, and the confidence depends on the level only
\* (alto 0.8, medio 0.65, bajo 0.45).
TableLevel(weapon, vehicle, kidnap, robbery, violence) ==
    CASE weapon /\ vehicle -> "alto"
      [] weapon /\ ~vehicle /\ (robbery \/ violence \/ kidnap) -> "alto"
      [] ~weapon /\ kidnap -> "alto"
      [] ~weapon /\ ~kidnap /\ (robbery \/ violence) -> "medio"
      [] OTHER -> "bajo"

TableConfidence(level) ==
    CASE level = "alto" -> 80 [] level = "medio" -> 65 [] level = "bajo" -> 45

C5_PrecedenceTable ==
    TextDone =>
        LET level == TableLevel(contains_any(PlainText, WEAPON_KEYWORDS),
                                contains_any(PlainText, VEHICLE_KEYWORDS),
                                contains_any(PlainText, KIDNAP_KEYWORDS),
                                contains_any(PlainText, ROBBERY_KEYWORDS),
                                contains_any(PlainText, VIOLENCE_KEYWORDS))
        IN  /\ text_result.risk_level = level
            /\ text_result.ai_confidence = TableConfidence(level)

\* a weapon keyword alone stays "bajo"
C5_Witness ==
    /\ TextDone
    /\ words = <<1>>
    /\ text_result.has_weapon
    /\ text_result.risk_level = "bajo"
    /\ text_result.ai_confidence = 45

(***************************************************************************)
(* app.py : change_status                                                  *)
(***************************************************************************)
ValidStatuses == {"pendiente", "verificado", "falso"}

set_status(rows, report_id, status) ==
    [rows EXCEPT ![report_id].status = status]

\* the membership test on the status left out
change_status_unvalidated(report_id, body_status) ==
    LET args == [report_id |-> report_id, status |-> body_status]
    IN  IF report_id \notin 1..Len(reports)
        THEN /\ resp' = [op |-> "change_status", code |-> 404, args |-> args,
                         body |-> [ok |-> FALSE, error |-> "Not Found"]]
             /\ UNCHANGED <<reports, uploads, status_updates>>
        ELSE /\ status_updates[report_id] < MaxStatusUpdates
             /\ reports' = set_status(reports, report_id, body_status)
             /\ status_updates' = [status_updates EXCEPT ![report_id] = @ + 1]
             /\ resp' = [op |-> "change_status", code |-> 200, args |-> args,
                         body |-> [ok |-> TRUE, report |-> reports'[report_id]]]
             /\ UNCHANGED uploads

\* the update applied to every row instead of the row of the request
change_status_all_rows(report_id, body_status) ==
    LET args == [report_id |-> report_id, status |-> body_status]
    IN  IF report_id \notin 1..Len(reports)
        THEN /\ resp' = [op |-> "change_status", code |-> 404, args |-> args,
                         body |-> [ok |-> FALSE, error |-> "Not Found"]]
             /\ UNCHANGED <<reports, uploads, status_updates>>
        ELSE IF body_status \notin ValidStatuses
        THEN /\ resp' = [op |-> "change_status", code |-> 400, args |-> args,
                         body |-> [ok |-> FALSE, error |-> "Estado invalido"]]
             /\ UNCHANGED <<reports, uploads, status_updates>>
        ELSE /\ status_updates[report_id] < MaxStatusUpdates
             /\ reports' = [i \in 1..Len(reports) |-> [reports[i] EXCEPT !.status = body_status]]
             /\ status_updates' = [status_updates EXCEPT ![report_id] = @ + 1]
             /\ resp' = [op |-> "change_status", code |-> 200, args |-> args,
                         body |-> [ok |-> TRUE, report |-> reports'[report_id]]]
             /\ UNCHANGED uploads

\* body_status is data.get("status"): None when the key is missing
change_status(report_id, body_status) ==
    LET args == [report_id |-> report_id, status |-> body_status]
    IN  IF report_id \notin 1..Len(reports)
        THEN /\ resp' = [op |-> "change_status", code |-> 404, args |-> args,
                         body |-> [ok |-> FALSE, error |-> "Not Found"]]
             /\ UNCHANGED <<reports, uploads, status_updates>>
        ELSE IF body_status \notin ValidStatuses
        THEN /\ resp' = [op |-> "change_status", code |-> 400, args |-> args,
                         body |-> [ok |-> FALSE, error |-> "Estado invalido"]]
             /\ UNCHANGED <<reports, uploads, status_updates>>
        ELSE /\ status_updates[report_id] < MaxStatusUpdates
             /\ reports' = set_status(reports, report_id, body_status)
             /\ status_updates' = [status_updates EXCEPT ![report_id] = @ + 1]
             /\ resp' = [op |-> "change_status", code |-> 200, args |-> args,
                         body |-> [ok |-> TRUE, report |-> reports'[report_id]]]
             /\ UNCHANGED uploads

(***************************************************************************)
(* app.py : haversine, nearby_reports                                      *)
(***************************************************************************)
\* haversine(lat1, lon1, lat2, lon2) in millimetres, as the source's
\* function computes it on the coordinates of the model (1e-4 degrees)
HaversineTable ==
    <<-346037, -583816, -346037, -583816>> :> 0 @@
    <<-346037, -583816, -346041, -583816>> :> 44478 @@
    <<-346037, -583816, -346035, -583815>> :> 24049 @@
    <<-346037, -583816, -346100, -583816>> :> 700528 @@
    <<-346037, -583816, -346037, -583770>> :> 421013 @@
    <<-346041, -583816, -346037, -583816>> :> 44478 @@
    <<-346041, -583816, -346041, -583816>> :> 0 @@
    <<-346041, -583816, -346035, -583815>> :> 67342 @@
    <<-346041, -583816, -346100, -583816>> :> 656050 @@
    <<-346041, -583816, -346037, -583770>> :> 423355 @@
    <<-346035, -583815, -346037, -583816>> :> 24049 @@
    <<-346035, -583815, -346041, -583816>> :> 67342 @@
    <<-346035, -583815, -346035, -583815>> :> 0 @@
    <<-346035, -583815, -346100, -583816>> :> 722825 @@
    <<-346035, -583815, -346037, -583770>> :> 412461 @@
    <<-346100, -583816, -346037, -583816>> :> 700528 @@
    <<-346100, -583816, -346041, -583816>> :> 656050 @@
    <<-346100, -583816, -346035, -583815>> :> 722825 @@
    <<-346100, -583816, -346100, -583816>> :> 0 @@
    <<-346100, -583816, -346037, -583770>> :> 817299 @@
    <<-346037, -583770, -346037, -583816>> :> 421013 @@
    <<-346037, -583770, -346041, -583816>> :> 423355 @@
    <<-346037, -583770, -346035, -583815>> :> 412461 @@
    <<-346037, -583770, -346100, -583816>> :> 817299 @@
    <<-346037, -583770, -346037, -583770>> :> 0

haversine(lat1, lon1, lat2, lon2) == HaversineTable[<<lat1, lon1, lat2, lon2>>]

\* request.args.get("radius_km", type=float) or 0.5, in millimetres:
\* a missing or non-numeric value converts to None
DefaultRadius == 500000

radius_arg(raw) ==
    IF to_float(raw).raised THEN DefaultRadius
    ELSE IF to_float(raw).value = 0 THEN DefaultRadius
    ELSE to_float(raw).value

\* the loop over Report.query.all(): the rows within the radius, in id order
RECURSIVE within_radius(_, _, _, _)
within_radius(rows, lat, lng, radius_km) ==
    IF Len(rows) = 0 THEN <<>>
    ELSE LET r == Head(rows)
             d == haversine(lat, lng, r.latitude, r.longitude)
         IN  (IF d <= radius_km
              THEN << [report |-> r, distance_km |-> d,
                       weapon_detected |-> r.has_weapon] >>
              ELSE <<>>)
             \o within_radius(Tail(rows), lat, lng, radius_km)

\* list.sort(key=distance_km): stable, ascending
RECURSIVE insert_sorted(_, _)
insert_sorted(sorted, x) ==
    IF Len(sorted) = 0 THEN <<x>>
    ELSE IF sorted[Len(sorted)].distance_km <= x.distance_km THEN Append(sorted, x)
    ELSE Append(insert_sorted(SubSeq(sorted, 1, Len(sorted) - 1), x), sorted[Len(sorted)])

RECURSIVE sort_by_distance(_)
sort_by_distance(out) ==
    IF Len(out) = 0 THEN <<>>
    ELSE insert_sorted(sort_by_distance(SubSeq(out, 1, Len(out) - 1)), out[Len(out)])

nearby_reports(lat_raw, lng_raw, radius_raw) ==
    LET lat  == to_float(lat_raw)
        lng  == to_float(lng_raw)
        args == [lat |-> lat_raw, lng |-> lng_raw, radius_km |-> radius_raw]
    IN  /\ resp' =
            IF lat.raised \/ lng.raised
            THEN [op |-> "nearby_reports", code |-> 400, args |-> args,
                  body |-> [ok |-> FALSE, data |-> <<>>]]
            ELSE [op |-> "nearby_reports", code |-> 200, args |-> args,
                  body |-> [ok |-> TRUE,
                            data |-> sort_by_distance(
                                within_radius(reports, lat.value, lng.value,
                                              radius_arg(radius_raw)))]]
        /\ UNCHANGED <<reports, uploads, status_updates>>

(***************************************************************************)
(* app.py : heatmap                                                        *)
(***************************************************************************)
\* round(x, 3) of a coordinate with four decimals: Python rounds the binary
\* value of the float, so a last digit 5 goes the way the float lies
HalfwayRound == (-346035 :> -346030) @@ (-583815 :> -583820)

round3(x) ==
    LET r == x % 10
    IN  IF r < 5 THEN x - r
        ELSE IF r > 5 THEN x - r + 10
        ELSE HalfwayRound[x]

\* the count assigned instead of incremented
add_to_bucket_assign(buckets, key) ==
    IF \E i \in 1..Len(buckets) : buckets[i].key = key
    THEN [i \in 1..Len(buckets) |->
            IF buckets[i].key = key
            THEN [buckets[i] EXCEPT !.count = 1] ELSE buckets[i]]
    ELSE Append(buckets, [key |-> key, count |-> 1])

\* buckets.setdefault(key, 0); buckets[key] += 1, on a dict in insertion order
add_to_bucket(buckets, key) ==
    IF \E i \in 1..Len(buckets) : buckets[i].key = key
    THEN [i \in 1..Len(buckets) |->
            IF buckets[i].key = key
            THEN [buckets[i] EXCEPT !.count = @ + 1] ELSE buckets[i]]
    ELSE Append(buckets, [key |-> key, count |-> 1])

RECURSIVE fill_buckets(_, _)
fill_buckets(rows, buckets) ==
    IF Len(rows) = 0 THEN buckets
    ELSE fill_buckets(Tail(rows),
            add_to_bucket(buckets,
                <<round3(Head(rows).latitude), round3(Head(rows).longitude)>>))

heatmap ==
    LET buckets == fill_buckets(reports, <<>>)
    IN  /\ resp' = [op |-> "heatmap", code |-> 200, args |-> <<>>,
                    body |-> [ok |-> TRUE,
                              data |-> [i \in 1..Len(buckets) |->
                                          [lat |-> buckets[i].key[1],
                                           lng |-> buckets[i].key[2],
                                           count |-> buckets[i].count]]]]
        /\ UNCHANGED <<reports, uploads, status_updates>>

(***************************************************************************)
(* Requests of the admin panel: citizen reports and status changes         *)
(***************************************************************************)
InitRoutes ==
    /\ InitNoText
    /\ ROBOFLOW_API_KEY = None
    /\ PLATE_API_TOKEN = None
    /\ InitApp

StatusBodies == ValidStatuses \cup {"cerrado", "VERIFICADO", "", None}

post_report ==
    /\ create_report(Form(NoneStr, <<>>, NoneStr, Num(HomeLat), Num(HomeLng)),
                     NoImage, TRUE, AnyRoboflowWorld, AnyPlateWorld)
    /\ UNCHANGED textVars
    /\ UNCHANGED envVars
    /\ UNCHANGED incidentVars

patch_status ==
    \E report_id \in 1..(MaxReports + 1), body_status \in StatusBodies :
        /\ change_status(report_id, body_status)
        /\ UNCHANGED textVars
        /\ UNCHANGED envVars
        /\ UNCHANGED incidentVars

NextStatus == post_report \/ patch_status

SpecStatus == InitRoutes /\ [][NextStatus]_vars

(***************************************************************************)
(* Requests of the map: reports at several places, nearby query, heatmap   *)
(***************************************************************************)
Places ==
    { <<-346037, -583816>>, <<-346041, -583816>>, <<-346035, -583815>>,
      <<-346100, -583816>>, <<-346037, -583770>> }

QueryPlaces == { <<-346037, -583816>>, <<-346100, -583816>> }

RadiusArgs == { Missing, NotNumeric, Num(0), Num(100000), Num(1000000), Num(-1000) }

post_report_at ==
    \E place \in Places :
        /\ create_report(Form(NoneStr, <<>>, NoneStr, Num(place[1]), Num(place[2])),
                         NoImage, TRUE, AnyRoboflowWorld, AnyPlateWorld)
        /\ UNCHANGED textVars
        /\ UNCHANGED envVars
        /\ UNCHANGED incidentVars

get_nearby ==
    \E place \in QueryPlaces, radius_raw \in RadiusArgs :
        /\ nearby_reports(Num(place[1]), Num(place[2]), radius_raw)
        /\ UNCHANGED textVars
        /\ UNCHANGED envVars
        /\ UNCHANGED incidentVars

get_nearby_invalid ==
    \E lat_raw \in {Missing, NotNumeric}, lng_raw \in {Missing, Num(HomeLng)} :
        /\ nearby_reports(lat_raw, lng_raw, Missing)
        /\ UNCHANGED textVars
        /\ UNCHANGED envVars
        /\ UNCHANGED incidentVars

get_heatmap ==
    /\ heatmap
    /\ UNCHANGED textVars
    /\ UNCHANGED envVars
    /\ UNCHANGED incidentVars

NextGeo == post_report_at \/ get_nearby \/ get_nearby_invalid \/ get_heatmap

SpecGeo == InitRoutes /\ [][NextGeo]_vars

(***************************************************************************)
(* app.py : add_track_point, list_track_points                             *)
(***************************************************************************)
\* the row count is capped; datetime.utcnow() of each insert is later than
\* that of the insert before it
add_track_point(report_id, data) ==
    LET lat  == to_float(data.latitude)
        lng  == to_float(data.longitude)
        args == [report_id |-> report_id, data |-> data]
        tp   == [ id         |-> Len(track_points) + 1,
                  report_id  |-> report_id,
                  latitude   |-> lat.value,
                  longitude  |-> lng.value,
                  created_at |-> clock + 1 ]
    IN  IF lat.raised \/ lng.raised
        THEN /\ resp' = [op |-> "add_track_point", code |-> 400, args |-> args,
                         body |-> [ok |-> FALSE, error |-> "Latitud/Longitud invalidas"]]
             /\ UNCHANGED <<reports, uploads, status_updates>>
             /\ UNCHANGED incidentVars
        ELSE IF report_id \notin 1..Len(reports)
        THEN /\ resp' = [op |-> "add_track_point", code |-> 404, args |-> args,
                         body |-> [ok |-> FALSE, error |-> "Reporte no encontrado"]]
             /\ UNCHANGED <<reports, uploads, status_updates>>
             /\ UNCHANGED incidentVars
        ELSE IF lat.nan \/ lng.nan
        \* the INSERT fails: SQLite binds nan as NULL, the columns are NOT NULL
        THEN /\ resp' = [op |-> "add_track_point", code |-> 500, args |-> args,
                         body |-> [ok |-> FALSE, error |-> "Internal Server Error"]]
             /\ UNCHANGED <<reports, uploads, status_updates>>
             /\ UNCHANGED incidentVars
        ELSE /\ Len(track_points) < MaxTrackPoints
             /\ track_points' = Append(track_points, tp)
             /\ clock' = clock + 1
             /\ resp' = [op |-> "add_track_point", code |-> 201, args |-> args,
                         body |-> [ok |-> TRUE, item |-> tp]]
             /\ UNCHANGED <<reports, uploads, status_updates, panic_events, inflight>>

\* filter_by(report_id=report_id)
of_report(rows, report_id) ==
    SelectSeq(rows, LAMBDA tp : tp.report_id = report_id)

\* order_by(TrackPoint.created_at.asc())
RECURSIVE insert_by_created_at(_, _)
insert_by_created_at(sorted, x) ==
    IF Len(sorted) = 0 THEN <<x>>
    ELSE IF sorted[Len(sorted)].created_at <= x.created_at THEN Append(sorted, x)
    ELSE Append(insert_by_created_at(SubSeq(sorted, 1, Len(sorted) - 1), x),
                sorted[Len(sorted)])

\* the order reversed: created_at.desc()
RECURSIVE order_by_created_at_desc(_)
order_by_created_at_desc(rows) ==
    IF Len(rows) = 0 THEN <<>>
    ELSE <<rows[Len(rows)]>> \o order_by_created_at_desc(SubSeq(rows, 1, Len(rows) - 1))

RECURSIVE order_by_created_at(_)
order_by_created_at(rows) ==
    IF Len(rows) = 0 THEN <<>>
    ELSE insert_by_created_at(order_by_created_at(SubSeq(rows, 1, Len(rows) - 1)),
                              rows[Len(rows)])

list_track_points(report_id) ==
    /\ resp' =
          IF report_id \notin 1..Len(reports)
          THEN [op |-> "list_track_points", code |-> 404, args |-> [report_id |-> report_id],
                body |-> [ok |-> FALSE, items |-> <<>>]]
          ELSE [op |-> "list_track_points", code |-> 200, args |-> [report_id |-> report_id],
                body |-> [ok |-> TRUE,
                          items |-> order_by_created_at(of_report(track_points, report_id))]]
    /\ UNCHANGED <<reports, uploads, status_updates>>
    /\ UNCHANGED incidentVars

(***************************************************************************)
(* app.py : panic                                                          *)
(***************************************************************************)
\* a JSON object where a number is expected: the INSERT cannot bind it
JsonObject == [kind |-> "object", value |-> 0]

Normal == <<"n","o","r","m","a","l">>

\* the Report without a risk_level: the column default applies
panic_report_unrated(id, lat, lng) ==
    [ id          |-> id,
      report_type |-> <<"p","a","n","i","c","o">>,
      description |-> [user |-> <<>>,
                       analysis |-> with_plate("Boton de panico activado desde la app.", NoneStr)],
      latitude    |-> lat,
      longitude   |-> lng,
      image_path  |-> NoneStr,
      plate_text  |-> NoneStr,
      risk_level  |-> "desconocido",
      has_weapon  |-> FALSE,
      has_vehicle |-> FALSE,
      status      |-> "pendiente",
      source      |-> "panico" ]

\* Report(...) of panic
panic_report(id, lat, lng) ==
    [ id          |-> id,
      report_type |-> <<"p","a","n","i","c","o">>,
      description |-> [user |-> <<>>,
                       analysis |-> with_plate("Boton de panico activado desde la app.", NoneStr)],
      latitude    |-> lat,
      longitude   |-> lng,
      image_path  |-> NoneStr,
      plate_text  |-> NoneStr,
      risk_level  |-> "alto",
      has_weapon  |-> FALSE,
      has_vehicle |-> FALSE,
      status      |-> "pendiente",
      source      |-> "panico" ]

\* panic up to its first commit: validation, the Report row, db.session.commit()
panic_first_commit(data) ==
    LET lat == to_float(data.latitude)
        lng == to_float(data.longitude)
        mode == IF get_stripped(data.mode) = <<>> THEN Normal ELSE get_stripped(data.mode)
        id  == Len(reports) + 1
    IN  IF lat.raised \/ lng.raised
        THEN /\ resp' = [op |-> "panic", code |-> 400, args |-> [data |-> data],
                         body |-> [ok |-> FALSE, error |-> "Coordenadas invalidas"]]
             /\ UNCHANGED <<reports, uploads, status_updates>>
             /\ UNCHANGED incidentVars
        ELSE IF lat.nan \/ lng.nan
        \* the first commit fails: SQLite binds nan as NULL, the columns are NOT NULL
        THEN /\ resp' = [op |-> "panic", code |-> 500, args |-> [data |-> data],
                         body |-> [ok |-> FALSE, error |-> "Internal Server Error"]]
             /\ UNCHANGED <<reports, uploads, status_updates>>
             /\ UNCHANGED incidentVars
        ELSE /\ Len(reports) < MaxReports
             /\ Len(inflight) < MaxInflight
             /\ reports' = Append(reports, panic_report(id, lat.value, lng.value))
             /\ status_updates' = Append(status_updates, 0)
             /\ inflight' = Append(inflight,
                               [ data |-> data, report_id |-> id, user_id |-> data.user_id,
                                 mode |-> mode, under_duress |-> data.under_duress ])
             /\ UNCHANGED <<uploads, resp, track_points, panic_events, clock>>

\* the rest of panic: the PanicEvent row, the second db.session.commit() and
\* the response; the commit raises when user_id cannot be bound
panic_second_commit(k) ==
    LET req == inflight[k]
        rest == [i \in 1..(Len(inflight) - 1) |-> IF i < k THEN inflight[i] ELSE inflight[i + 1]]
    IN  /\ inflight' = rest
        /\ IF req.user_id.kind = "object"
           THEN /\ resp' = [op |-> "panic", code |-> 500, args |-> [data |-> req.data],
                            body |-> [ok |-> FALSE, error |-> "Internal Server Error"]]
                /\ UNCHANGED panic_events
           ELSE /\ panic_events' = Append(panic_events,
                                     [ id           |-> Len(panic_events) + 1,
                                       report_id    |-> req.report_id,
                                       user_id      |-> req.user_id,
                                       mode         |-> req.mode,
                                       under_duress |-> req.under_duress ])
                /\ resp' = [op |-> "panic", code |-> 200, args |-> [data |-> req.data],
                            body |-> [ok |-> TRUE, report |-> reports[req.report_id]]]
        /\ UNCHANGED <<reports, uploads, status_updates, track_points, clock>>

(***************************************************************************)
(* Requests of the app in an incident: panic button, reports with a photo, *)
(* escape-route tracking                                                   *)
(***************************************************************************)
PanicBody(lat, lng, under_duress, mode, user_id) ==
    [latitude |-> lat, longitude |-> lng, under_duress |-> under_duress,
     mode |-> mode, user_id |-> user_id]

PanicBodies ==
    { PanicBody(Num(HomeLat), Num(HomeLng), FALSE, NoneStr, Missing),
      PanicBody(Num(HomeLat), Num(HomeLng), TRUE, <<"s","i","l","e","n","t">>, Num(7)),
      PanicBody(Num(HomeLat), Num(HomeLng), FALSE, <<" ">>, JsonObject),
      PanicBody(Missing, Num(HomeLng), TRUE, NoneStr, Num(7)),
      PanicBody(Num(HomeLat), NotNumeric, FALSE, NoneStr, Missing) }

post_panic ==
    \E data \in PanicBodies :
        /\ panic_first_commit(data)
        /\ UNCHANGED textVars
        /\ UNCHANGED envVars

finish_panic ==
    \E k \in 1..Len(inflight) :
        /\ panic_second_commit(k)
        /\ UNCHANGED textVars
        /\ UNCHANGED envVars

NextPanic == post_panic \/ finish_panic

SpecPanic == InitRoutes /\ [][NextPanic]_vars

(***************************************************************************)
(* Requests of escape-route tracking                                       *)
(***************************************************************************)
TrackBodies ==
    { [latitude |-> Num(HomeLat), longitude |-> Num(HomeLng)],
      [latitude |-> Num(-346041), longitude |-> Num(HomeLng)],
      [latitude |-> Missing, longitude |-> Num(HomeLng)] }

post_track ==
    \E report_id \in 1..(MaxReports + 1), data \in TrackBodies :
        /\ add_track_point(report_id, data)
        /\ UNCHANGED textVars
        /\ UNCHANGED envVars

get_track ==
    \E report_id \in 1..(MaxReports + 1) :
        /\ list_track_points(report_id)
        /\ UNCHANGED textVars
        /\ UNCHANGED envVars

NextTrack == post_report \/ post_track \/ get_track

SpecTrack == InitRoutes /\ [][NextTrack]_vars

(***************************************************************************)
(* Requests with and without usable coordinates                            *)
(***************************************************************************)
BadCoordinates == { <<Missing, Num(HomeLng)>>, <<Num(HomeLat), NotNumeric>>, <<Missing, Missing>> }

\* the text "nan" in place of a number
NanCoordinates == { <<NanText, Num(HomeLng)>> }

SomeCoordinates == BadCoordinates \cup NanCoordinates \cup { <<Num(HomeLat), Num(HomeLng)>> }

post_report_photo ==
    \E coords \in SomeCoordinates :
        /\ create_report(Form(NoneStr, <<>>, NoneStr, coords[1], coords[2]),
                         Photo, TRUE, AnyRoboflowWorld, AnyPlateWorld)
        /\ UNCHANGED textVars
        /\ UNCHANGED envVars
        /\ UNCHANGED incidentVars

post_panic_at ==
    \E coords \in SomeCoordinates :
        /\ panic_first_commit(PanicBody(coords[1], coords[2], FALSE, NoneStr, Missing))
        /\ UNCHANGED textVars
        /\ UNCHANGED envVars

post_track_at ==
    \E report_id \in {1, MaxReports + 1}, coords \in SomeCoordinates :
        /\ add_track_point(report_id, [latitude |-> coords[1], longitude |-> coords[2]])
        /\ UNCHANGED textVars
        /\ UNCHANGED envVars

NextValidation == post_report_photo \/ post_panic_at \/ finish_panic \/ post_track_at

SpecValidation == InitRoutes /\ [][NextValidation]_vars

(***************************************************************************)
(* app.py : get_upload, and the requests of evidence upload                *)
(***************************************************************************)
\* send_from_directory(UPLOAD_FOLDER, filename)
get_upload(filename) ==
    /\ resp' =
          IF filename \in DOMAIN uploads
          THEN [op |-> "get_upload", code |-> 200, args |-> [filename |-> filename],
                body |-> [bytes |-> uploads[filename]]]
          ELSE [op |-> "get_upload", code |-> 404, args |-> [filename |-> filename],
                body |-> [bytes |-> None]]
    /\ UNCHANGED <<reports, uploads, status_updates>>
    /\ UNCHANGED incidentVars

\* photos of several witnesses: the phone's default name twice with different
\* contents, a name that differs from it by "_" for " ", and another name
Photos ==
    { Photo,
      [filename |-> <<"f","o","t","o"," ","1",".","j","p","g">>, bytes |-> "jpeg-2"],
      [filename |-> <<"f","o","t","o","_","1",".","j","p","g">>, bytes |-> "jpeg-3"],
      [filename |-> <<"b",".","j","p","g">>, bytes |-> "jpeg-4"] }

post_report_with ==
    \E photo \in Photos \cup {NoImage} :
        /\ create_report(Form(NoneStr, <<>>, NoneStr, Num(HomeLat), Num(HomeLng)),
                         photo, TRUE, AnyRoboflowWorld, AnyPlateWorld)
        /\ UNCHANGED textVars
        /\ UNCHANGED envVars
        /\ UNCHANGED incidentVars

get_report_image ==
    \E filename \in { safe_name(photo.filename) : photo \in Photos } :
        /\ get_upload(filename)
        /\ UNCHANGED textVars
        /\ UNCHANGED envVars

NextUpload == post_report_with \/ get_report_image

SpecUpload == InitRoutes /\ [][NextUpload]_vars

(***************************************************************************)
(* Requests of report creation without an image: description and plate     *)
(* typed in the form                                                       *)
(***************************************************************************)
FormDescriptions ==
    { <<"v","e","c","i","n","o">>,
      <<"A","r","m","a"," ","e","n"," ","a","u","t","o">> }

FormPlates ==
    { NoneStr, <<>>, <<" ">>, <<"a","b","1">>, <<" ","a","b","1"," ">> }

post_report_form ==
    \E descr \in FormDescriptions, plate_text \in FormPlates :
        /\ create_report(Form(NoneStr, descr, plate_text, Num(HomeLat), Num(HomeLng)),
                         NoImage, TRUE, AnyRoboflowWorld, AnyPlateWorld)
        /\ UNCHANGED textVars
        /\ UNCHANGED envVars
        /\ UNCHANGED incidentVars

NextForm == post_report_form

SpecForm == InitRoutes /\ [][NextForm]_vars

(***************************************************************************)
(* Properties of the image pipeline (checked under SpecVision)             *)
(***************************************************************************)
\* the last request was a report creation with an image attached
CreatedWithImage ==
    /\ resp.op = "create_report"
    /\ resp.args.image.filename # <<>>

MalformedPayload(world) ==
    /\ world.kind = "ok"
    /\ \E i \in 1..Len(world.json.predictions) :
          world.json.predictions[i].confidence.kind # "number"

\* the weapon-detection call of the last request failed: credentials
\* missing, HTTP error, timeout, or an exception while reading the payload
WeaponDetectionFailed ==
    \/ ROBOFLOW_API_KEY = None
    \/ resp.args.rf_world.kind \in {"http_error", "timeout"}
    \/ MalformedPayload(resp.args.rf_world)

\* the row the last create_report committed
CreatedRow == reports[resp.body.report.id]

\* C1: a report creation with an image whose weapon-detection call fails
\* is answered 201 and persists risk_level "bajo" with has_weapon and
\* weapon_detected false.
C1_VisionFailureIsLowRisk ==
    (CreatedWithImage /\ WeaponDetectionFailed)
    => ( /\ resp.code = 201
         /\ resp.body.ok
         /\ resp.body.report.id = Len(reports)
         /\ CreatedRow = resp.body.report
         /\ CreatedRow.risk_level = "bajo"
         /\ CreatedRow.has_weapon = FALSE
         /\ resp.body.weapon_detected = FALSE )

C1_Witness ==
    /\ CreatedWithImage
    /\ resp.args.import_ok
    /\ ROBOFLOW_API_KEY # None
    /\ resp.args.rf_world.kind = "timeout"
    /\ resp.code = 201
    /\ CreatedRow.risk_level = "bajo"

\* C10: the image risk is bucketed from the greatest confidence among the
\* weapon-class detections (>= 0.8 alto, >= 0.5 medio, else bajo); without
\* a weapon-class detection it is bajo; weapon_detected holds exactly when
\* some detection has a weapon class.
WeaponSpellings ==
    { <<"h","a","n","d","g","u","n">>, <<"g","u","n">>, <<"G","u","n">>,
      <<"p","i","s","t","o","l">>, <<"P","I","S","T","O","L">>,
      <<"r","e","v","o","l","v","e","r">> }

WeaponConfidences(preds) ==
    { preds[i].confidence.value :
        i \in { j \in 1..Len(preds) : preds[j].class \in WeaponSpellings } }

SetMax(S) == CHOOSE m \in S : \A x \in S : x <= m

ExpectedImageRisk(preds) ==
    LET confs == WeaponConfidences(preds)
    IN  IF confs = {} THEN "bajo"
        ELSE IF SetMax(confs) >= 80 THEN "alto"
        ELSE IF SetMax(confs) >= 50 /\ SetMax(confs) < 80 THEN "medio"
        ELSE "bajo"

\* compute_risk_and_summary ran to the end on the payload of the last request
RiskComputed ==
    /\ CreatedWithImage
    /\ resp.args.import_ok
    /\ ~WeaponDetectionFailed

C10_RiskBuckets ==
    RiskComputed =>
        LET preds == resp.args.rf_world.json.predictions
        IN  /\ CreatedRow.risk_level = ExpectedImageRisk(preds)
            /\ CreatedRow.has_weapon = (WeaponConfidences(preds) # {})
            /\ resp.body.weapon_detected = (WeaponConfidences(preds) # {})

C10_Witness ==
    /\ RiskComputed
    /\ Len(resp.args.rf_world.json.predictions) = 3
    /\ SetMax(WeaponConfidences(resp.args.rf_world.json.predictions)) = 85
    /\ CreatedRow.risk_level = "alto"
    /\ CreatedRow.has_weapon

(***************************************************************************)
(* Properties of the map routes (checked under SpecGeo)                    *)
(***************************************************************************)
NearbyAnswered ==
    /\ resp.op = "nearby_reports"
    /\ resp.code = 200

Ascending(data) ==
    \A i \in 1..Len(data), j \in 1..Len(data) :
        i < j => data[i].distance_km <= data[j].distance_km

\* C6: the nearby query returns only reports whose distance to the query
\* point is at most the radius given in the request, in ascending order of
\* distance.
C6_NearbyWithinGivenRadius ==
    (NearbyAnswered /\ resp.args.radius_km.kind = "number")
    => LET data == resp.body.data
       IN  /\ \A i \in 1..Len(data) :
                 /\ data[i].report = reports[data[i].report.id]
                 /\ data[i].distance_km =
                       haversine(resp.args.lat.value, resp.args.lng.value,
                                 data[i].report.latitude, data[i].report.longitude)
                 /\ data[i].distance_km <= resp.args.radius_km.value
           /\ Ascending(data)

\* C7: the heatmap partitions the stored reports by their coordinates
\* rounded to 3 decimals: the points have distinct rounded pairs, each
\* count is the number of reports rounding to the pair, and the counts add
\* up to the number of reports.
ReportsRoundingTo(lat, lng) ==
    { k \in 1..Len(reports) :
        /\ round3(reports[k].latitude) = lat
        /\ round3(reports[k].longitude) = lng }

RECURSIVE SumCounts(_)
SumCounts(data) ==
    IF Len(data) = 0 THEN 0 ELSE Head(data).count + SumCounts(Tail(data))

C7_HeatmapPartition ==
    (resp.op = "heatmap")
    => LET data == resp.body.data
       IN  /\ \A i \in 1..Len(data), j \in 1..Len(data) :
                 i # j => <<data[i].lat, data[i].lng>> # <<data[j].lat, data[j].lng>>
           /\ \A i \in 1..Len(data) :
                 data[i].count = Cardinality(ReportsRoundingTo(data[i].lat, data[i].lng))
           /\ SumCounts(data) = Len(reports)

\* two reports at different coordinates share a bucket, a third has its own
C7_Witness ==
    /\ resp.op = "heatmap"
    /\ Len(reports) = 3
    /\ Len(resp.body.data) = 2
    /\ \E i \in 1..2 :
          /\ resp.body.data[i].count = 2
          /\ \E a \in ReportsRoundingTo(resp.body.data[i].lat, resp.body.data[i].lng) :
             \E b \in ReportsRoundingTo(resp.body.data[i].lat, resp.body.data[i].lng) :
                reports[a].latitude # reports[b].latitude

(***************************************************************************)
(* Properties of the status route (checked under SpecStatus)               *)
(***************************************************************************)
\* C8: a status change whose status is not pendiente/verificado/falso is
\* answered 400 and changes no report, so every stored status is always
\* one of the three values.
InvalidStatusRejected ==
    (resp'.op = "change_status" /\ resp'.args.status \notin ValidStatuses)
    => ( /\ reports' = reports
         /\ (resp'.args.report_id \in 1..Len(reports)) => resp'.code = 400 )

StoredStatusesValid ==
    \A i \in 1..Len(reports) : reports[i].status \in ValidStatuses

C9_StatusUpdatedAtMostOnce ==
    \A i \in 1..Len(status_updates) : status_updates[i] <= 1

\* C9 as amended: a report is created with status pendiente, and afterwards
\* its status changes only by a successful status PATCH for that report, to
\* the valid value of the request; the number of such changes is not limited
\* to one.
StatusChangesOnlyByPatch ==
    /\ Len(reports') >= Len(reports)
    /\ \A i \in 1..Len(reports') :
          IF i > Len(reports)
          THEN reports'[i].status = "pendiente"
          ELSE (reports'[i].status # reports[i].status)
               => ( /\ resp'.op = "change_status"
                    /\ resp'.code = 200
                    /\ resp'.args.report_id = i
                    /\ resp'.args.status \in ValidStatuses
                    /\ reports'[i].status = resp'.args.status )

C9_StatusChangesOnlyByPatch == [][StatusChangesOnlyByPatch]_vars

\* a report whose status was changed twice
C9_Witness ==
    /\ Len(reports) = 2
    /\ status_updates[1] = 2
    /\ reports[1].status = "falso"
    /\ reports[2].status = "pendiente"
    /\ resp.op = "change_status"
    /\ resp.code = 200

(***************************************************************************)
(* Properties of the panic route (checked under SpecPanic)                 *)
(***************************************************************************)
PanicAnswered == resp.op = "panic" /\ resp.code = 200

events_of(report_id) ==
    { k \in 1..Len(panic_events) : panic_events[k].report_id = report_id }

\* the step that answers a panic request with success
PanicSucceeds ==
    /\ Len(inflight') < Len(inflight)
    /\ resp'.op = "panic"
    /\ resp'.code = 200

\* C11: every successful panic request has created exactly one report, with
\* risk_level "alto", source "panico" and status "pendiente", and exactly one
\* PanicEvent whose report_id is that report's id, whatever mode, user_id and
\* under_duress were sent.
C11_PanicCreatesLinkedReport ==
    /\ [](PanicAnswered =>
            LET id == resp.body.report.id
            IN  /\ id \in 1..Len(reports)
                /\ reports[id] = resp.body.report
                /\ reports[id].risk_level = "alto"
                /\ reports[id].source = "panico"
                /\ reports[id].status = "pendiente"
                /\ Cardinality(events_of(id)) = 1)
    /\ [][PanicSucceeds =>
            /\ Len(panic_events') = Len(panic_events) + 1
            /\ panic_events'[Len(panic_events')].report_id = resp'.body.report.id
            /\ reports' = reports]_vars
    /\ [][Len(inflight') > Len(inflight) => Len(reports') = Len(reports) + 1]_vars

C11_Witness ==
    /\ PanicAnswered
    /\ resp.args.data.under_duress
    /\ resp.args.data.mode = <<"s","i","l","e","n","t">>
    /\ resp.args.data.user_id = Num(7)
    /\ Len(panic_events) = 2
    /\ panic_events[2].report_id = resp.body.report.id
    /\ panic_events[2].mode = <<"s","i","l","e","n","t">>

\* C15: in every state each report with source "panico" has exactly one
\* PanicEvent linked to it and each PanicEvent is linked to exactly one such
\* report, between the two commits of a panic request and after a failure of
\* the second commit included.
C15_PanicReportHasOneEvent ==
    /\ \A i \in 1..Len(reports) :
          reports[i].source = "panico" => Cardinality(events_of(i)) = 1
    /\ \A k \in 1..Len(panic_events) :
          /\ panic_events[k].report_id \in 1..Len(reports)
          /\ reports[panic_events[k].report_id].source = "panico"

(***************************************************************************)
(* Properties of coordinate validation (checked under SpecValidation)      *)
(***************************************************************************)
ValidatedOps == {"create_report", "panic", "add_track_point"}

\* both coordinates of the request are numbers
NumericCoordinates(data) ==
    data.latitude.kind = "number" /\ data.longitude.kind = "number"

\* the step that answers a request of one of the three routes
Answers(op_set) == resp' # resp /\ resp'.op \in op_set

\* C12: a request with missing or non-numeric coordinates to create_report,
\* panic or add_track_point is answered 400 and changes nothing: no Report,
\* TrackPoint or PanicEvent row is created and no upload file is written.
C12_InvalidCoordinatesRejected ==
    [][(Answers(ValidatedOps) /\ ~NumericCoordinates(resp'.args.data)) =>
          /\ resp'.code = 400
          /\ UNCHANGED <<reports, track_points, panic_events, uploads>>]_vars

\* the same, for coordinates that are missing or that float() refuses
RefusedCoordinatesRejected ==
    [][(Answers(ValidatedOps)
          /\ \E c \in BadCoordinates : /\ resp'.args.data.latitude = c[1]
                                       /\ resp'.args.data.longitude = c[2]) =>
          /\ resp'.code = 400
          /\ UNCHANGED <<reports, track_points, panic_events, uploads>>]_vars

(***************************************************************************)
(* Properties of escape-route tracking (checked under SpecTrack)           *)
(***************************************************************************)
\* every track point stored so far is still stored, unchanged
TrackAppendOnly ==
    /\ Len(track_points') >= Len(track_points)
    /\ \A k \in 1..Len(track_points) : track_points'[k] = track_points[k]

\* items holds every track point stored for the report, once, in the order
\* in which they were created
ListsTrackOf(items, report_id) ==
    /\ \A k \in 1..Len(track_points) :
          track_points[k].report_id = report_id
          => \E j \in 1..Len(items) : items[j] = track_points[k]
    /\ \A j \in 1..Len(items) :
          /\ items[j].report_id = report_id
          /\ \E k \in 1..Len(track_points) : items[j] = track_points[k]
    /\ \A i, j \in 1..Len(items) : i < j => items[i].id < items[j].id

TrackListed == resp.op = "list_track_points" /\ resp.code = 200

ListedTrack == ListsTrackOf(resp.body.items, resp.args.report_id)

\* the step that answers a track-point POST for a report that does not exist
PostsToMissingReport ==
    /\ resp' # resp
    /\ resp'.op = "add_track_point"
    /\ resp'.args.report_id \notin 1..Len(reports)

TrackOrdered ==
    /\ [][TrackAppendOnly]_vars
    /\ [][(resp' # resp /\ TrackListed')
            => ListedTrack']_vars
    /\ [](\A k \in 1..Len(track_points) : track_points[k].report_id \in 1..Len(reports))

ImageAnalyzed == CreatedWithImage /\ resp.args.import_ok

\* the plate call of the last request was made and failed
PlateCallFailed ==
    /\ PLATE_API_TOKEN # None
    /\ resp.args.pr_world.kind # "ok"

\* the plate call of the last request was made and read a plate
PlateCallReadPlate ==
    /\ PLATE_API_TOKEN # None
    /\ resp.args.pr_world.kind = "ok"
    /\ Len(resp.args.pr_world.json.results) > 0

UpperCase(text) ==
    [i \in 1..Len(text) |->
        IF InSeq(LowercaseLetters, text[i])
        THEN UppercaseLetters[IndexOf(LowercaseLetters, text[i])]
        ELSE text[i]]

\* the plate of a result no other result outscores, in capitals
IsBestPlate(plate_text, results) ==
    \E i \in 1..Len(results) :
        /\ \A j \in 1..Len(results) : results[j].score <= results[i].score
        /\ plate_text = UpperCase(results[i].plate)

\* C14: the two external calls of analyze_image fail independently. A
\* failure of the plate call leaves the risk level and the weapon flag of the
\* weapon call as they are, with no plate text; a failure of the weapon call
\* does not keep the plate call from being made and its plate text from being
\* returned and stored on the report.
C14_CallsFailIndependently ==
    /\ (ImageAnalyzed /\ PlateCallFailed) =>
          /\ resp.code = 201
          /\ CreatedRow.plate_text = NoneStr
          /\ CreatedRow.has_vehicle = FALSE
          /\ resp.body.ai_raw_summary.plate = NoneStr
          /\ IF WeaponDetectionFailed
             THEN CreatedRow.risk_level = "bajo" /\ CreatedRow.has_weapon = FALSE
             ELSE LET preds == resp.args.rf_world.json.predictions
                  IN  /\ CreatedRow.risk_level = ExpectedImageRisk(preds)
                      /\ CreatedRow.has_weapon = (WeaponConfidences(preds) # {})
                      /\ resp.body.weapon_detected = CreatedRow.has_weapon
    /\ (ImageAnalyzed /\ WeaponDetectionFailed /\ PlateCallReadPlate) =>
          /\ resp.code = 201
          /\ IsBestPlate(CreatedRow.plate_text, resp.args.pr_world.json.results)
          /\ resp.body.report.plate_text = CreatedRow.plate_text
          /\ resp.body.ai_raw_summary.plate = CreatedRow.plate_text
          /\ CreatedRow.has_vehicle
          /\ CreatedRow.risk_level = "bajo"
          /\ CreatedRow.has_weapon = FALSE

\* both cases: a row rated alto by the weapon call whose plate call failed,
\* and a row with a plate whose weapon call timed out
C14_Witness ==
    /\ Len(reports) = 2
    /\ ROBOFLOW_API_KEY # None
    /\ ImageAnalyzed
    /\ PlateCallReadPlate
    /\ resp.args.rf_world.kind = "timeout"
    /\ reports[2].plate_text = <<"A","B","1","2","3","C","D">>
    /\ reports[1].risk_level = "alto"
    /\ reports[1].has_weapon
    /\ reports[1].plate_text = NoneStr
    /\ reports[1].image_path # NoneStr

(***************************************************************************)
(* Properties of the uploaded evidence (checked under SpecUpload)          *)
(***************************************************************************)
HasImage(report) == report.image_path # NoneStr

\* the step that creates a report with an image
CreatesWithImage ==
    /\ Len(reports') = Len(reports) + 1
    /\ resp'.op = "create_report"
    /\ resp'.args.image.filename # <<>>

UploadServed == resp.op = "get_upload" /\ resp.code = 200

\* C16: after any sequence of report creations with images, the file served
\* at each report's image_path contains the bytes uploaded with that report:
\* the file of a new report holds its upload, the file of an earlier report is
\* never replaced by a later upload, and the file served is the file stored.
C16_EvidenceKept ==
    /\ [][CreatesWithImage =>
            uploads'[reports'[Len(reports')].image_path] = resp'.args.image.bytes]_vars
    /\ [][\A i \in 1..Len(reports) :
            HasImage(reports[i]) =>
                /\ reports'[i].image_path = reports[i].image_path
                /\ uploads'[reports[i].image_path] = uploads[reports[i].image_path]]_vars
    /\ [](UploadServed => resp.body.bytes = uploads[resp.args.filename])

(***************************************************************************)
(* Properties of reports without an image (checked under SpecForm)         *)
(***************************************************************************)
CreatedWithoutImage ==
    /\ resp.op = "create_report"
    /\ resp.code = 201
    /\ Len(resp.args.image.filename) = 0

\* the plate_text field was sent and is not the empty string
PlateSubmitted ==
    /\ resp.args.data.plate_text # NoneStr
    /\ Len(resp.args.data.plate_text) > 0

\* the plate_text field was sent and holds more than blanks
PlateTyped ==
    /\ resp.args.data.plate_text # NoneStr
    /\ \E i \in 1..Len(resp.args.data.plate_text) : resp.args.data.plate_text[i] # " "

\* the text classifier's opinion of the description of the last request
TextOpinion == analyze_text(resp.args.data.description)

\* C17 as stated: a report created without an image is persisted with
\* risk_level "bajo" and has_weapon false whatever its description says, and
\* has_vehicle is true exactly when a non-empty plate_text was submitted.
C17_VehicleIffPlateSubmitted ==
    CreatedWithoutImage =>
        /\ CreatedRow.risk_level = "bajo"
        /\ CreatedRow.has_weapon = FALSE
        /\ CreatedRow.has_vehicle = PlateSubmitted

\* C17: a report created without an image is persisted with risk_level
\* "bajo" and has_weapon false whatever its description says, and has_vehicle
\* is true exactly when the plate_text submitted holds more than blanks.
C17_VehicleIffPlateTyped ==
    CreatedWithoutImage =>
        /\ CreatedRow = resp.body.report
        /\ CreatedRow.risk_level = "bajo"
        /\ CreatedRow.has_weapon = FALSE
        /\ CreatedRow.has_vehicle = PlateTyped

C17_Witness ==
    /\ CreatedWithoutImage
    /\ TextOpinion.risk_level = "alto"
    /\ TextOpinion.has_weapon
    /\ CreatedRow.risk_level = "bajo"
    /\ resp.args.data.plate_text = <<" ","a","b","1"," ">>
    /\ CreatedRow.has_vehicle
    /\ CreatedRow.plate_text = <<"a","b","1">>
    /\ Len(reports) >= 2
    /\ reports[1].has_vehicle = FALSE
====
